---- MODULE Spec2Model ----
(***************************************************************************)
(* Game launcher service, sandbox manager and sandbox backends of          *)
(* wyd-sandboxing (app/services/game_launcher_service.py,                  *)
(* app/utils/sandbox_manager.py, app/utils/built_in_sandbox.py,            *)
(* app/utils/windows_sandbox.py), as a state machine.                      *)
(*                                                                         *)
(* Modelling conventions                                                   *)
(*  - The OS process table is the sequence procs; a pid is an index.       *)
(*  - A process handle is [kind, pid]; kind "popen" is subprocess.Popen    *)
(*    (poll/terminate/wait/kill), kind "psutil" is psutil.Process          *)
(*    (is_running/terminate/wait/kill, no poll), kind "none" is no handle. *)
(*  - int(time.time()) is the variable now; uuid.uuid4().hex[:8] is the    *)
(*    counter uuids: every draw yields a value never drawn before.         *)
(*  - An instance id "{game_id}_{ts}_{hex8}" is the triple <<g, ts, u>>;   *)
(*    the id of a plain launch (the game_id itself) is <<g, 0, 0>>.        *)
(*    A sandbox name "{game_id}_{ts}" is the pair <<g, ts>>.               *)
(*  - running_games is a sequence of records (a Python dict keeps the      *)
(*    insertion order, and the monitor iterates in that order).            *)
(*  - shutil.rmtree(..., ignore_errors=True) removes the directory.        *)
(***************************************************************************)
EXTENDS Integers, Sequences, FiniteSets, TLC

VARIABLES
    games,           \* GameLauncherService.games: game_id -> executable
    running_games,   \* GameLauncherService.running_games (insertion order)
    monitor,         \* the monitor thread: "none" or "running"
    stop_flag,       \* GameLauncherService.stop_monitoring (threading.Event)
    timers,          \* instance ids with a pending remove_after_delay thread
    available,       \* SandboxManager.available_sandboxes
    probe,           \* what the availability probes of the machine find
    sandboxes,       \* SandboxManager.sandboxes: name -> record
    bi_sandboxes,    \* BuiltInSandbox.sandboxes: name -> record
    ws_sandboxes,    \* WindowsSandbox.sandboxes: name -> record
    dirs,            \* temp directories that exist on disk
    procs,           \* OS process table
    now,             \* int(time.time())
    uuids,           \* number of instance-id suffixes drawn so far
    last,            \* the public call the last step completed, and what it returned
    minted,          \* instance ids returned by successful sandboxed launches so far
    threads,         \* caller threads inside launch_game, statement by statement
    shut,            \* the thread inside shutdown, statement by statement
    iter,            \* the thread inside the loop of is_game_running
    monitors,        \* number of live threads running _monitor_games
    tm               \* the ThreadManager: its queues, tasks and threads

vars == <<games, running_games, monitor, stop_flag, timers, available, probe, sandboxes,
          bi_sandboxes, ws_sandboxes, dirs, procs, now, uuids, last, minted,
          threads, shut, iter, monitors, tm>>

fixed == <<games, available, probe>>
mon == <<monitor, stop_flag, monitors>>
svc == <<running_games, timers>>
world == <<sandboxes, bi_sandboxes, ws_sandboxes, dirs, procs, uuids>>
conc == <<threads, shut, iter, tm>>

--------------------------------------------------------------------------
(* Bounds of the model *)

MaxProcs == 2
MaxTime == 2
MaxUuid == 2

(* Program constants *)

RecentWindow == 10

GameIds == {"g1", "g2"}
GamePath == [g \in GameIds |-> IF g = "g1" THEN "a.exe" ELSE "b.exe"]
Backends == {"built_in", "windows_sandbox", "sandboxie", "virtualbox"}
ResistKinds == {"none", "term", "denied"}

NoHandle == [kind |-> "none", pid |-> 0]
NoName == <<>>
Popen(pid) == [kind |-> "popen", pid |-> pid]
Psutil(pid) == [kind |-> "psutil", pid |-> pid]

--------------------------------------------------------------------------
(* The OS process table *)

Pids(ps) == DOMAIN ps
IsAlive(ps, pid) == pid \in DOMAIN ps /\ ps[pid].alive
SpawnProc(ps, name, resist, box) ==
    Append(ps, [name |-> name, alive |-> TRUE, resist |-> resist, born |-> now,
                box |-> box])
\* an exited process: nothing reads the attributes of a dead process, so the
\* table keeps one canonical entry for it
DeadProc == [name |-> "", alive |-> FALSE, resist |-> "none", born |-> 0, box |-> NoName]
ExitProc(ps, pid) == [ps EXCEPT ![pid] = DeadProc]

\* terminate() followed by wait(timeout): "exited", "timeout" (TimeoutExpired),
\* "denied" (AccessDenied / PermissionError from terminate), "gone" (already dead)
TermOutcome(ps, pid) ==
    IF ~IsAlive(ps, pid) THEN "gone"
    ELSE IF ps[pid].resist = "none" THEN "exited"
    ELSE IF ps[pid].resist = "term" THEN "timeout"
    ELSE "denied"

\* kill(): "killed", "denied", "gone"
KillOutcome(ps, pid) ==
    IF ~IsAlive(ps, pid) THEN "gone"
    ELSE IF ps[pid].resist = "denied" THEN "denied"
    ELSE "killed"

\* psutil.process_iter yields the live processes in pid order
MinOf(S) == CHOOSE x \in S : \A y \in S : x <= y
ProcsNamed(ps, name) == {p \in DOMAIN ps : ps[p].alive /\ ps[p].name = name}

--------------------------------------------------------------------------
(* Finite maps *)

Put(f, k, v) == [x \in DOMAIN f \cup {k} |-> IF x = k THEN v ELSE f[x]]
Drop(f, k) == [x \in DOMAIN f \ {k} |-> f[x]]
EmptyMap == [x \in {} |-> 0]

--------------------------------------------------------------------------
(* The state the sandbox layer works on, as one record: the process table, *)
(* the manager's registry, the two backend registries, the temp            *)
(* directories and the uuid counter.  Each operation below maps a world    *)
(* (and the environment's choices env) to [w |-> world after, ret |-> ...].*)
(* env = [spawn_ok, child, resist]: whether Popen succeeds, whether the    *)
(* spawned program comes up, and how the new process reacts to terminate.  *)

World == [procs |-> procs, sandboxes |-> sandboxes, bi |-> bi_sandboxes,
          ws |-> ws_sandboxes, dirs |-> dirs, uuids |-> uuids]

Envs == [spawn_ok : BOOLEAN, child : BOOLEAN, resist : ResistKinds]

ResFalse == [kind |-> "bool", success |-> "false", handle |-> NoHandle]
ResTrue == [kind |-> "bool", success |-> "true", handle |-> NoHandle]
ResDictFail == [kind |-> "dict", success |-> "false", handle |-> NoHandle]
ResDict(h, success) == [kind |-> "dict", success |-> success, handle |-> h]

\* Python truth value of a launch result: a dict with keys is truthy
Truthy(res) == res.kind = "dict" \/ res.success = "true"

BiDir(name, id) == <<"wydbot_identity", name, id>>
WsDir(name) == <<"wydbot_winsandbox", name>>

(* ---- BuiltInSandbox ---- *)

\* sandbox_id = str(uuid.uuid4()): a sandbox is only created inside a launch
\* that has just drawn its own instance id, so the number of draws so far
\* is a value no other creation gets
\* hwid stands for the three random fields hwid, mac and computer_name that
\* are drawn together with the id; ext for the fields every launch draws
\* (ip_address, disk_serial, bios_uuid, motherboard_serial, cpu_id,
\* user_name), 0 while sandbox["identity"] is not set.  The values of one
\* launch are random; they are named by the pid of the launcher that launch
\* spawned, a value no other launch has.
BiCreate(w, name) ==
    [w EXCEPT !.bi = Put(w.bi, name, [id |-> w.uuids, hwid |-> w.uuids, ext |-> 0,
                                      running |-> FALSE,
                                      processes |-> <<>>, has_temp_dir |-> FALSE])]

\* create_sandbox called on every launch, whether the name exists or not
BiEnsureAlways(w, name) == BiCreate(w, name)

\* "if name not in self.sandboxes: ... self.create_sandbox(name)"
BiEnsure(w, name) == IF name \in DOMAIN w.bi THEN w ELSE BiCreate(w, name)

\* the process the launch tracks: the first live process with the game's
\* executable name created in the last RecentWindow seconds, else the launcher
\* the processes the name-and-creation-time match of a launch can find
RecentNamed(ps, exe) == {p \in ProcsNamed(ps, exe) : ps[p].born > now - RecentWindow}

\* a resolution that gives up when the game process is not found
BiResolveOrNothing(ps, exe, launcher) ==
    IF RecentNamed(ps, exe) # {} THEN Psutil(MinOf(RecentNamed(ps, exe))) ELSE NoHandle

BiResolve(ps, exe, launcher) ==
    LET cands == {p \in ProcsNamed(ps, exe) : ps[p].born > now - RecentWindow}
    IN  IF cands # {} THEN Psutil(MinOf(cands)) ELSE Popen(launcher)

BiLaunch(w, name, exe, env) ==
    LET w1 == BiEnsure(w, name)
        sb == w1.bi[name]
        w2 == [w1 EXCEPT !.dirs = w1.dirs \cup {BiDir(name, sb.id)}]
    IN  IF ~env.spawn_ok
        THEN [w |-> w2, ret |-> ResDictFail]
        ELSE LET ps1 == SpawnProc(w2.procs, "launch_game.bat", "none", NoName)
                 launcher == Len(ps1)
                 ps2 == IF env.child THEN SpawnProc(ps1, exe, env.resist, NoName) ELSE ps1
                 h == BiResolve(ps2, exe, launcher)
             IN  [w |-> [w2 EXCEPT !.procs = ps2,
                                   !.bi[name] = [sb EXCEPT !.running = TRUE,
                                                           !.has_temp_dir = TRUE,
                                                           !.ext = launcher,
                                                           !.processes = Append(sb.processes, h)]],
                  ret |-> ResDict(h, "absent")]

\* one pass of the loop over sandbox["processes"]: poll() on a psutil handle
\* raises AttributeError, a TimeoutExpired from wait() skips the kill()
RECURSIVE BiTerminateProcs(_, _)
BiTerminateProcs(ps, hs) ==
    IF hs = <<>> THEN ps
    ELSE LET h == Head(hs)
             ps1 == IF h.kind = "popen" /\ IsAlive(ps, h.pid)
                        /\ TermOutcome(ps, h.pid) = "exited"
                    THEN ExitProc(ps, h.pid) ELSE ps
         IN  BiTerminateProcs(ps1, Tail(hs))

BiTerminate(w, name) ==
    IF name \notin DOMAIN w.bi THEN [w |-> w, ret |-> FALSE]
    ELSE LET sb == w.bi[name]
         IN  [w |-> [w EXCEPT !.procs = BiTerminateProcs(w.procs, sb.processes),
                              !.dirs = IF sb.has_temp_dir
                                       THEN w.dirs \ {BiDir(name, sb.id)} ELSE w.dirs,
                              !.bi = Drop(w.bi, name)],
              ret |-> TRUE]

BiHealth(w, name) ==
    IF name \notin DOMAIN w.bi THEN "not_found"
    ELSE LET hs == w.bi[name].processes
         IN  IF \E k \in DOMAIN hs : hs[k].kind # "popen" THEN "error"
             ELSE IF \E k \in DOMAIN hs : IsAlive(w.procs, hs[k].pid) THEN "running"
             ELSE "stopped"

(* ---- WindowsSandbox ---- *)

WsLaunch(w, name, env) ==
    LET w1 == [w EXCEPT !.dirs = w.dirs \cup {WsDir(name)},
                        !.ws = Put(w.ws, name, [running |-> FALSE, process |-> NoHandle])]
    IN  IF ~env.spawn_ok
        THEN [w |-> w1, ret |-> ResFalse]
        ELSE LET ps1 == SpawnProc(w1.procs, "WindowsSandbox.exe", env.resist, NoName)
             IN  [w |-> [w1 EXCEPT !.procs = ps1,
                                   !.ws[name] = [running |-> TRUE, process |-> Popen(Len(ps1))]],
                  ret |-> ResTrue]

WsTerminate(w, name) ==
    IF name \notin DOMAIN w.ws THEN [w |-> w, ret |-> FALSE]
    ELSE LET sb == w.ws[name]
             live == sb.running /\ sb.process # NoHandle /\ IsAlive(w.procs, sb.process.pid)
         IN  IF live /\ TermOutcome(w.procs, sb.process.pid) # "exited"
             THEN [w |-> w, ret |-> FALSE]
             ELSE [w |-> [w EXCEPT !.procs = IF live THEN ExitProc(w.procs, sb.process.pid)
                                             ELSE w.procs,
                                   !.dirs = w.dirs \ {WsDir(name)},
                                   !.ws = Drop(w.ws, name)],
                   ret |-> TRUE]

WsHealth(w, name) ==
    IF name \notin DOMAIN w.ws THEN "not_found"
    ELSE IF w.ws[name].process # NoHandle /\ IsAlive(w.procs, w.ws[name].process.pid)
         THEN "running" ELSE "stopped"

(* ---- Sandboxie and VirtualBox (SandboxManager's own wrappers) ---- *)

\* the psutil scan: live processes named like Sandboxie whose command line
\* carries /box:<name>
SbScan(ps, name) ==
    {p \in DOMAIN ps : ps[p].alive /\ ps[p].name = "sandboxie" /\ ps[p].box = name}

SbLaunch(w, name, env) ==
    IF ~env.spawn_ok THEN [w |-> w, ret |-> ResDictFail]
    ELSE LET ps1 == SpawnProc(w.procs, "Start.exe", env.resist, name)
             pid == Len(ps1)
         IN  IF ~env.child   \* poll() is not None right after the spawn
             THEN [w |-> [w EXCEPT !.procs = ExitProc(ps1, pid)], ret |-> ResDictFail]
             ELSE [w |-> [w EXCEPT !.procs = ps1,
                                   !.sandboxes = Put(w.sandboxes, name,
                                        [type |-> "sandboxie", process |-> Popen(pid)])],
                   ret |-> ResDict(Popen(pid), "true")]

RECURSIVE TerminateAll(_, _)
TerminateAll(ps, S) ==
    IF S = {} THEN ps
    ELSE LET p == MinOf(S)
         IN  TerminateAll(IF ps[p].resist = "none" THEN ExitProc(ps, p) ELSE ps, S \ {p})

SbTerminate(w, name) ==
    LET h == w.sandboxes[name].process
        viaHandle == h # NoHandle /\ TermOutcome(w.procs, h.pid) \in {"exited", "gone"}
        found == SbScan(w.procs, name)
    IN  IF viaHandle
        THEN [w |-> [w EXCEPT !.procs = IF IsAlive(w.procs, h.pid)
                                        THEN ExitProc(w.procs, h.pid) ELSE w.procs,
                              !.sandboxes = Drop(w.sandboxes, name)],
              ret |-> TRUE]
        ELSE IF found # {}
        THEN [w |-> [w EXCEPT !.procs = TerminateAll(w.procs, found),
                              !.sandboxes = Drop(w.sandboxes, name)],
              ret |-> TRUE]
        ELSE [w |-> w, ret |-> FALSE]

SbHealth(w, name) ==
    LET h == w.sandboxes[name].process
    IN  IF h # NoHandle /\ IsAlive(w.procs, h.pid) THEN "running"
        ELSE IF SbScan(w.procs, name) # {} THEN "running"
        ELSE "not_running"

VbLaunch(w, name) == [w |-> w, ret |-> ResTrue]
VbTerminate(w, name) == [w |-> w, ret |-> TRUE]
VbHealth(w, name) == "running"

(* ---- SandboxManager ---- *)

\* The machine as the probes see it: the Sandboxie and VirtualBox executables,
\* C:\Windows\System32\WindowsSandbox.exe, the state of the optional feature
\* Containers-DisposableClientVM, and whether PowerShell pads the property
\* names of its listing ("State            : Enabled") or not ("State : Enabled")
Probes == [sandboxie : BOOLEAN, virtualbox : BOOLEAN, ws_binary : BOOLEAN,
           ws_feature : BOOLEAN, padded : BOOLEAN]
FullProbe == [sandboxie |-> TRUE, virtualbox |-> TRUE, ws_binary |-> TRUE,
              ws_feature |-> TRUE, padded |-> FALSE]

\* '"Enabled" in result.stdout'
IsWindowsSandboxAvailable(p) == p.ws_feature

\* "if not os.path.exists(self.sandbox_path): return False" ...
\* 'return "State : Enabled" in result.stdout'
WsIsAvailable(p) == p.ws_binary /\ p.ws_feature /\ ~p.padded

\* _check_available_sandboxes without the final append("built_in")
AvailableWithoutBuiltIn(p) ==
    {t \in {"sandboxie"} : p.sandboxie}
      \cup {t \in {"windows_sandbox"} : IsWindowsSandboxAvailable(p) \/ WsIsAvailable(p)}
      \cup {t \in {"virtualbox"} : p.virtualbox}

\* available_sandboxes after __init__, as the set of its elements (the list
\* holds windows_sandbox twice when both probes succeed)
AvailableSandboxes(p) == AvailableWithoutBuiltIn(p) \cup {"built_in"}

MgrEntry(type) == [type |-> type, process |-> NoHandle]

MgrLaunch(w, type, name, exe, env) ==
    IF type \notin available THEN [w |-> w, ret |-> ResFalse]
    ELSE LET r == IF type = "built_in" THEN BiLaunch(w, name, exe, env)
                  ELSE IF type = "windows_sandbox" THEN WsLaunch(w, name, env)
                  ELSE IF type = "sandboxie" THEN SbLaunch(w, name, env)
                  ELSE VbLaunch(w, name)
             stored == IF type = "built_in"
                       THEN r.ret.kind = "dict" /\ r.ret.success # "false"
                       ELSE Truthy(r.ret)
         IN  [w |-> IF stored
                    THEN [r.w EXCEPT !.sandboxes = Put(r.w.sandboxes, name, MgrEntry(type))]
                    ELSE r.w,
              ret |-> r.ret]

MgrTerminate(w, name) ==
    IF name \notin DOMAIN w.sandboxes THEN [w |-> w, ret |-> FALSE]
    ELSE LET type == w.sandboxes[name].type
         IN  IF type = "built_in" THEN BiTerminate(w, name)
             ELSE IF type = "sandboxie" THEN SbTerminate(w, name)
             ELSE IF type = "windows_sandbox" THEN WsTerminate(w, name)
             ELSE VbTerminate(w, name)

MgrHealth(w, name) ==
    IF name \notin DOMAIN w.sandboxes THEN "not_found"
    ELSE LET type == w.sandboxes[name].type
         IN  IF type = "built_in" THEN BiHealth(w, name)
             ELSE IF type = "sandboxie" THEN SbHealth(w, name)
             ELSE IF type = "windows_sandbox" THEN WsHealth(w, name)
             ELSE VbHealth(w, name)

\* terminate_all_sandboxes: terminate_sandbox for every name of a snapshot of
\* the registry (the sandboxes share no popen handle, so the order is immaterial)
RECURSIVE MgrTerminateAll(_, _)
MgrTerminateAll(w, names) ==
    IF names = {} THEN w
    ELSE LET n == CHOOSE x \in names : TRUE
         IN  MgrTerminateAll(MgrTerminate(w, n).w, names \ {n})

--------------------------------------------------------------------------
(* GameLauncherService.running_games: a sequence of records, one per key *)

PlainId(g) == <<g, 0, 0>>
InstanceId(g, ts, u) == <<g, ts, u>>
SandboxName(g, ts) == <<g, ts>>

Keys(rg) == {rg[k].id : k \in DOMAIN rg}
KeyList(rg) == [k \in DOMAIN rg |-> rg[k].id]
Has(rg, i) == \E k \in DOMAIN rg : rg[k].id = i
Pos(rg, i) == CHOOSE k \in DOMAIN rg : rg[k].id = i
Get(rg, i) == rg[Pos(rg, i)]
Store(rg, rec) ==
    IF Has(rg, rec.id) THEN [rg EXCEPT ![Pos(rg, rec.id)] = rec] ELSE Append(rg, rec)
Del(rg, i) == SelectSeq(rg, LAMBDA r : r.id # i)

\* what launch_game stores: the Popen object itself
RawRecord(g, pid) ==
    [id |-> PlainId(g), shape |-> "popen", game_id |-> "none", in_sandbox |-> FALSE,
     sandbox |-> NoName, sandbox_type |-> "none", proc |-> Popen(pid),
     terminated |-> FALSE]

\* what launch_game_in_sandbox stores: a dict
SandboxRecord(i, g, name, type, h) ==
    [id |-> i, shape |-> "dict", game_id |-> g, in_sandbox |-> TRUE,
     sandbox |-> name, sandbox_type |-> type, proc |-> h, terminated |-> FALSE]

\* the service's state as one record
Service == [rg |-> running_games, timers |-> timers, w |-> World]

--------------------------------------------------------------------------
(* terminate_game *)

\* the psutil branch: terminate(), wait(5), on any psutil error kill()
TgPsutil(ps, pid) ==
    IF TermOutcome(ps, pid) = "exited" THEN [ps |-> ExitProc(ps, pid), terminated |-> TRUE]
    ELSE IF KillOutcome(ps, pid) = "killed" THEN [ps |-> ExitProc(ps, pid), terminated |-> TRUE]
    ELSE [ps |-> ps, terminated |-> FALSE]

\* the Popen branch: terminate() outside the inner try, then wait(5), else kill()
TgPopen(ps, pid) ==
    IF TermOutcome(ps, pid) = "denied" THEN [ps |-> ps, terminated |-> FALSE, raised |-> TRUE]
    ELSE [ps |-> IF IsAlive(ps, pid) THEN ExitProc(ps, pid) ELSE ps,
          terminated |-> TRUE, raised |-> FALSE]

TerminateGame(S, i) ==
    IF ~Has(S.rg, i) THEN [S |-> S, ret |-> FALSE]
    ELSE LET rec == Get(S.rg, i)
         IN  IF rec.shape = "popen"      \* "process" in <Popen> raises TypeError
             THEN [S |-> S, ret |-> FALSE]
             ELSE LET h == rec.proc
                      a == IF h.kind = "psutil"
                           THEN TgPsutil(S.w.procs, h.pid) @@ [raised |-> FALSE]
                           ELSE IF h.kind = "popen" THEN TgPopen(S.w.procs, h.pid)
                           ELSE [ps |-> S.w.procs, terminated |-> FALSE, raised |-> FALSE]
                      b == IF ~a.terminated /\ h # NoHandle
                           THEN TgPsutil(a.ps, h.pid) ELSE [ps |-> a.ps, terminated |-> a.terminated]
                      w1 == [S.w EXCEPT !.procs = b.ps]
                      w2 == IF rec.in_sandbox /\ rec.sandbox # NoName
                            THEN MgrTerminate(w1, rec.sandbox).w ELSE w1
                  IN  IF a.raised THEN [S |-> S, ret |-> FALSE]
                      ELSE [S |-> [S EXCEPT !.rg = Del(S.rg, i), !.w = w2], ret |-> TRUE]

--------------------------------------------------------------------------
(* _update_running_games *)

\* is_running from the stored handle
HandleRunning(ps, h) == h # NoHandle /\ IsAlive(ps, h.pid)

\* one record of the loop: [rec, running]
UpdateRecord(S, rec) ==
    LET direct == HandleRunning(S.w.procs, rec.proc)
        named == IF rec.game_id \in DOMAIN games
                 THEN ProcsNamed(S.w.procs, games[rec.game_id]) ELSE {}
    IN  IF direct \/ ~(rec.in_sandbox /\ rec.sandbox # NoName)
        THEN [rec |-> rec, running |-> direct]
        ELSE IF rec.sandbox_type = "built_in"
        THEN IF named # {}
             THEN [rec |-> [rec EXCEPT !.proc = Psutil(MinOf(named))], running |-> TRUE]
             ELSE [rec |-> rec, running |-> FALSE]
        ELSE [rec |-> rec, running |-> MgrHealth(S.w, rec.sandbox) = "running"]

\* the loop without "if game_info.get('terminated', False): continue"
RECURSIVE UpdateLoopNoSkip(_, _)
UpdateLoopNoSkip(S, ids) ==
    IF ids = <<>> THEN S
    ELSE LET i == Head(ids)
         IN  IF ~Has(S.rg, i) THEN S
             ELSE LET rec == Get(S.rg, i)
                  IN  IF rec.shape = "popen" THEN S
                      ELSE LET u == UpdateRecord(S, rec)
                               S1 == IF u.running
                                     THEN [S EXCEPT !.rg = Store(S.rg, [u.rec EXCEPT !.terminated = FALSE])]
                                     ELSE [S EXCEPT !.rg = Store(S.rg, [u.rec EXCEPT !.terminated = TRUE]),
                                                    !.timers = S.timers \cup {i}]
                           IN  UpdateLoopNoSkip(S1, Tail(ids))

\* the loop deleting a dead instance in the pass that observes the death
RECURSIVE UpdateLoopDeleting(_, _)
UpdateLoopDeleting(S, ids) ==
    IF ids = <<>> THEN S
    ELSE LET i == Head(ids)
         IN  IF ~Has(S.rg, i) THEN S
             ELSE LET rec == Get(S.rg, i)
                  IN  IF rec.shape = "popen" THEN S
                      ELSE IF rec.terminated THEN UpdateLoopDeleting(S, Tail(ids))
                      ELSE LET u == UpdateRecord(S, rec)
                               S1 == IF u.running
                                     THEN [S EXCEPT !.rg = Store(S.rg, u.rec)]
                                     ELSE [S EXCEPT !.rg = Del(S.rg, i)]
                           IN  UpdateLoopDeleting(S1, Tail(ids))

\* the loop over the snapshot of the keys; a raw Popen record has no .get:
\* the AttributeError ends the pass (the outer except logs it)
RECURSIVE UpdateLoop(_, _)
UpdateLoop(S, ids) ==
    IF ids = <<>> THEN S
    ELSE LET i == Head(ids)
         IN  IF ~Has(S.rg, i) THEN S
             ELSE LET rec == Get(S.rg, i)
                  IN  IF rec.shape = "popen" THEN S
                      ELSE IF rec.terminated THEN UpdateLoop(S, Tail(ids))
                      ELSE LET u == UpdateRecord(S, rec)
                               S1 == IF u.running
                                     THEN [S EXCEPT !.rg = Store(S.rg, u.rec)]
                                     ELSE [S EXCEPT !.rg = Store(S.rg, [u.rec EXCEPT !.terminated = TRUE]),
                                                    !.timers = S.timers \cup {i}]
                           IN  UpdateLoop(S1, Tail(ids))

UpdateRunningGames(S) == UpdateLoop(S, KeyList(S.rg))

--------------------------------------------------------------------------
(* get_game_info: "info" when a record is returned, "none" otherwise *)

GetGameInfo(S, i) ==
    IF ~Has(S.rg, i) THEN [S |-> S, ret |-> "none"]
    ELSE LET rec == Get(S.rg, i)
         IN  IF rec.shape = "popen" THEN [S |-> S, ret |-> "none"]   \* .get raises
             ELSE IF rec.terminated THEN [S |-> S, ret |-> "none"]
             ELSE IF rec.proc = NoHandle
             THEN [S |-> S, ret |-> IF rec.in_sandbox /\ rec.sandbox # NoName
                                    THEN "info" ELSE "none"]
             ELSE IF ~IsAlive(S.w.procs, rec.proc.pid)
             THEN [S |-> [S EXCEPT !.rg = Store(S.rg, [rec EXCEPT !.terminated = TRUE]),
                                   !.timers = S.timers \cup {i}],
                   ret |-> "none"]
             ELSE [S |-> S, ret |-> "info"]

\* get_game_info during which the tracked process exits.  The record is a
\* dict, not marked, and its process passes poll() and pid_exists(); then
\*   stage "open":    the process is gone at psutil.Process(pid) / is_running():
\*                    the record is marked and None returned;
\*   stage "metrics": it is gone at memory_info() / cpu_percent(): NoSuchProcess
\*                    is caught, the metrics are zeroed and the detailed record
\*                    is returned.
\* In every other situation the call has no process to lose and runs as usual.
ExitStages == {"open", "metrics"}
GetGameInfoExit(S, i, stage) ==
    IF ~Has(S.rg, i) THEN GetGameInfo(S, i)
    ELSE LET rec == Get(S.rg, i)
         IN  IF rec.shape # "dict" \/ rec.terminated \/ ~HandleRunning(S.w.procs, rec.proc)
             THEN GetGameInfo(S, i)
             ELSE LET S1 == [S EXCEPT !.w.procs = ExitProc(S.w.procs, rec.proc.pid)]
                  IN  IF stage = "open"
                      THEN [S |-> [S1 EXCEPT !.rg = Store(S.rg, [rec EXCEPT !.terminated = TRUE]),
                                             !.timers = S.timers \cup {i}],
                            ret |-> "none"]
                      ELSE [S |-> S1, ret |-> "info"]

\* is_game_running: refresh, then look for a record of the game
IsGameRunning(S, g) ==
    LET S1 == UpdateRunningGames(S)
    IN  [S |-> S1,
         ret |-> \E k \in DOMAIN S1.rg :
                    \/ S1.rg[k].shape = "dict" /\ S1.rg[k].game_id = g
                    \/ S1.rg[k].id = PlainId(g)]

\* get_running_games: refresh, then the keys
GetRunningGames(S) ==
    LET S1 == UpdateRunningGames(S) IN [S |-> S1, ret |-> Keys(S1.rg)]

--------------------------------------------------------------------------
(* launch_game and launch_game_in_sandbox *)

\* the duplicate guard of launch_game
LaunchGuard(rg, g) == g \in DOMAIN games /\ ~Has(rg, PlainId(g))

\* launch_game with the registration test made after the spawn
LaunchGameLateCheck(S, g, env) ==
    IF Has(S.rg, PlainId(g)) \/ ~env.spawn_ok THEN [S |-> S, ret |-> FALSE]
    ELSE LET exe == IF g \in DOMAIN games THEN games[g] ELSE g
             ps1 == SpawnProc(S.w.procs, exe, env.resist, NoName)
         IN  IF g \notin DOMAIN games
             THEN [S |-> [S EXCEPT !.w.procs = ps1], ret |-> FALSE]
             ELSE [S |-> [S EXCEPT !.w.procs = ps1,
                                   !.rg = Store(S.rg, RawRecord(g, Len(ps1)))],
                   ret |-> TRUE]

LaunchGame(S, g, env) ==
    IF ~LaunchGuard(S.rg, g) \/ ~env.spawn_ok THEN [S |-> S, ret |-> FALSE]
    ELSE LET ps1 == SpawnProc(S.w.procs, games[g], env.resist, NoName)
         IN  [S |-> [S EXCEPT !.w.procs = ps1,
                              !.rg = Store(S.rg, RawRecord(g, Len(ps1)))],
              ret |-> TRUE]

\* an id without the random suffix: "{game_id}_{int(time.time())}"
MintWithoutSuffix(g, u) == InstanceId(g, now, 0)

\* the instance id minted for a sandboxed launch:
\* f"{game_id}_{int(time.time())}_{uuid.uuid4().hex[:8]}"
MintInstanceId(g, u) == InstanceId(g, now, u)

\* launch_game_in_sandbox that stores a record for every truthy result,
\* without the test 'result.get("success") is False'
LaunchInSandboxAnyDict(S, g, type, env) ==
    IF g \notin DOMAIN games THEN [S |-> S, ret |-> FALSE, id |-> PlainId(g)]
    ELSE LET u == S.w.uuids + 1
             i == MintInstanceId(g, u)
             name == SandboxName(g, now)
             r == MgrLaunch([S.w EXCEPT !.uuids = u], type, name, games[g], env)
             S1 == [S EXCEPT !.w = r.w]
         IN  IF ~Truthy(r.ret)
             THEN [S |-> S1, ret |-> FALSE, id |-> i]
             ELSE [S |-> [S1 EXCEPT !.rg = Store(S1.rg,
                                SandboxRecord(i, g, name, type, r.ret.handle))],
                   ret |-> TRUE, id |-> i]

LaunchGameInSandbox(S, g, type, env) ==
    IF g \notin DOMAIN games THEN [S |-> S, ret |-> FALSE, id |-> PlainId(g)]
    ELSE LET u == S.w.uuids + 1
             i == MintInstanceId(g, u)
             name == SandboxName(g, now)
             r == MgrLaunch([S.w EXCEPT !.uuids = u], type, name, games[g], env)
             S1 == [S EXCEPT !.w = r.w]
         IN  IF ~Truthy(r.ret) \/ (r.ret.kind = "dict" /\ r.ret.success = "false")
             THEN [S |-> S1, ret |-> FALSE, id |-> i]
             ELSE [S |-> [S1 EXCEPT !.rg = Store(S1.rg,
                                SandboxRecord(i, g, name, type, r.ret.handle))],
                   ret |-> TRUE, id |-> i]

--------------------------------------------------------------------------
(* The registration map *)

\* register_game that keeps the path of a game_id already registered
RegisterKeepFirst(gm, g, path, exists) ==
    IF ~exists THEN [games |-> gm, ret |-> FALSE]
    ELSE [games |-> IF g \in DOMAIN gm THEN gm ELSE Put(gm, g, path), ret |-> TRUE]

\* register_game: "if not os.path.exists(game_path): return False;
\*                 self.games[game_id] = game_path; return True"
RegisterGame(gm, g, path, exists) ==
    IF ~exists THEN [games |-> gm, ret |-> FALSE]
    ELSE [games |-> Put(gm, g, path), ret |-> TRUE]

\* get_registered_games: a copy of the map, as its set of (game_id, path) pairs
GetRegisteredGames(gm) == {<<g, gm[g]>> : g \in DOMAIN gm}

--------------------------------------------------------------------------
(* GameLauncherService.terminate_sandbox(game_id): no try block, so the     *)
(* TypeError of '"sandbox" in <Popen>' reaches the caller                   *)

ServiceTerminateSandbox(S, i) ==
    IF ~Has(S.rg, i) THEN [S |-> S, ret |-> "false"]
    ELSE LET rec == Get(S.rg, i)
         IN  IF rec.shape = "popen" THEN [S |-> S, ret |-> "raised"]
             ELSE IF rec.sandbox = NoName THEN [S |-> S, ret |-> "false"]
             ELSE LET r == MgrTerminate(S.w, rec.sandbox)
                  IN  IF r.ret
                      THEN [S |-> [S EXCEPT !.w = r.w,
                                            !.rg = Store(S.rg, [rec EXCEPT !.sandbox = NoName])],
                            ret |-> "true"]
                      ELSE [S |-> [S EXCEPT !.w = r.w], ret |-> "false"]

--------------------------------------------------------------------------
(* shutdown: stop the monitor, terminate every sandbox, then terminate_game *)
(* for every key of a snapshot of running_games                            *)

RECURSIVE TerminateEach(_, _)
TerminateEach(S, ids) ==
    IF ids = <<>> THEN S
    ELSE TerminateEach(TerminateGame(S, Head(ids)).S, Tail(ids))

Shutdown(S) ==
    LET S1 == [S EXCEPT !.w = MgrTerminateAll(S.w, DOMAIN S.w.sandboxes)]
    IN  TerminateEach(S1, KeyList(S1.rg))

\* pids the records of running_games hold a handle to
HandlePids(hs) == {hs[k].pid : k \in {x \in DOMAIN hs : hs[x] # NoHandle}}
TrackedPids(S) == HandlePids([k \in DOMAIN S.rg |-> S.rg[k].proc])

--------------------------------------------------------------------------
(* The service with every public call atomic, the monitor thread, the      *)
(* delayed-removal threads and the environment                             *)

\* the record of a completed call: what it returned (ret: truthy or not,
\* out: the detail), the keys a listing returned, the pids tracked on entry
Call(op, arg, ret) ==
    [op |-> op, arg |-> arg, ret |-> ret, out |-> "", keys |-> {}, pids |-> {},
     types |-> {}]
NoCall == Call("none", <<>>, FALSE)

ThreadIds == {1, 2}
IdleThread == [pc |-> "idle", g |-> "", pid |-> 0, ret |-> FALSE]
IdleShut == [pc |-> "idle", todo |-> <<>>]
IdleIter == [pc |-> "idle", g |-> "", pos |-> 0, size |-> 0]

\* the ThreadManager after construction: empty queues, no task, every
\* worker thread and the result processor at the top of its loop
TaskIds == {1, 2}
WorkerIds == {1}
NewTask == [submitted |-> FALSE, cancelled |-> FALSE, completed |-> FALSE,
            ran |-> FALSE, called |-> FALSE, cancel_ret |-> "none"]
TmInit ==
    [ev |-> FALSE,                      \* shutdown_event
     tq |-> <<>>, tq_unf |-> 0,         \* task_queue and its unfinished_tasks
     rq |-> <<>>, rq_unf |-> 0,         \* result_queue and its unfinished_tasks
     tasks |-> {},                      \* keys of self.tasks
     t |-> [i \in TaskIds |-> NewTask], \* the ThreadTask objects
     w |-> [k \in WorkerIds |-> [pc |-> "top", task |-> 0]],
     rp |-> [pc |-> "top", task |-> 0],
     sd |-> "idle"]                     \* the caller of shutdown(wait=True)

\* the state after GameLauncherService() on a machine with the probes of probe
Constructed ==
    /\ games = GamePath
    /\ running_games = <<>>
    /\ monitor = "none"
    /\ stop_flag = FALSE
    /\ timers = {}
    /\ available = AvailableSandboxes(probe)
    /\ sandboxes = EmptyMap
    /\ bi_sandboxes = EmptyMap
    /\ ws_sandboxes = EmptyMap
    /\ dirs = {}
    /\ procs = <<>>
    /\ now = 1
    /\ uuids = 0
    /\ last = NoCall
    /\ minted = {}
    /\ threads = [t \in ThreadIds |-> IdleThread]
    /\ shut = IdleShut
    /\ iter = IdleIter
    /\ monitors = 0
    /\ tm = TmInit

\* a machine where every backend is installed
Init == probe = FullProbe /\ Constructed

InBounds(S) == Len(S.w.procs) <= MaxProcs /\ S.w.uuids <= MaxUuid

Commit(S) ==
    /\ running_games' = S.rg
    /\ timers' = S.timers
    /\ procs' = S.w.procs
    /\ sandboxes' = S.w.sandboxes
    /\ bi_sandboxes' = S.w.bi
    /\ ws_sandboxes' = S.w.ws
    /\ dirs' = S.w.dirs
    /\ uuids' = S.w.uuids

\* "if not self.monitor_thread or not self.monitor_thread.is_alive():
\*  self.start_monitoring()"
StartMonitorIfNeeded ==
    IF monitor = "none"
    THEN monitor' = "running" /\ stop_flag' = FALSE /\ monitors' = monitors + 1
    ELSE UNCHANGED mon

\* whether subprocess.Popen raises during the call
SpawnNote(env) == IF env.spawn_ok THEN "" ELSE "spawn_raises"

DoLaunchGame(g, env) ==
    \E r \in {LaunchGame(Service, g, env)} :
        /\ InBounds(r.S)
        /\ Commit(r.S)
        /\ IF r.ret THEN StartMonitorIfNeeded ELSE UNCHANGED mon
        /\ last' = [Call("launch_game", PlainId(g), r.ret) EXCEPT !.out = SpawnNote(env)]
        /\ UNCHANGED <<fixed, now, minted, conc>>

DoLaunchGameInSandbox(g, type, env) ==
    \E r \in {LaunchGameInSandbox(Service, g, type, env)} :
        /\ InBounds(r.S)
        /\ Commit(r.S)
        /\ IF r.ret THEN StartMonitorIfNeeded ELSE UNCHANGED mon
        /\ last' = [Call("launch_game_in_sandbox", r.id, r.ret)
                       EXCEPT !.out = SpawnNote(env), !.types = {type}]
        /\ minted' = IF r.ret THEN minted \cup {r.id} ELSE minted
        /\ UNCHANGED <<fixed, now, conc>>

DoTerminateGame(i) ==
    \E r \in {TerminateGame(Service, i)} :
        /\ Commit(r.S)
        /\ last' = Call("terminate_game", i, r.ret)
        /\ UNCHANGED <<fixed, mon, now, minted, conc>>

DoRegisterGame(g, path, exists) ==
    \E r \in {RegisterGame(games, g, path, exists)} :
        /\ games' = r.games
        /\ last' = [Call("register_game", <<g, path>>, r.ret)
                       EXCEPT !.out = IF exists THEN "exists" ELSE "missing"]
        /\ UNCHANGED <<available, probe, mon, svc, world, now, minted, conc>>

\* unregister_game: terminate_game(game_id) when game_id is a key of
\* running_games, then "del self.games[game_id]"
DoUnregisterGame(g) ==
    IF g \notin DOMAIN games
    THEN /\ last' = Call("unregister_game", <<g>>, FALSE)
         /\ UNCHANGED <<fixed, mon, svc, world, now, minted, conc>>
    ELSE \E r \in {IF Has(running_games, PlainId(g))
                    THEN TerminateGame(Service, PlainId(g))
                    ELSE [S |-> Service, ret |-> FALSE]} :
             /\ Commit(r.S)
             /\ games' = Drop(games, g)
             /\ last' = Call("unregister_game", <<g>>, TRUE)
             /\ UNCHANGED <<available, probe, mon, now, minted, conc>>

DoGetRegisteredGames ==
    /\ last' = [Call("get_registered_games", <<>>, TRUE)
                   EXCEPT !.keys = GetRegisteredGames(games)]
    /\ UNCHANGED <<fixed, mon, svc, world, now, minted, conc>>

DoTerminateSandbox(name) ==
    \E r \in {MgrTerminate(World, name)} :
        /\ Commit([Service EXCEPT !.w = r.w])
        /\ last' = Call("terminate_sandbox", name, r.ret)
        /\ UNCHANGED <<fixed, mon, now, minted, conc>>

\* SandboxManager.launch_in_sandbox called directly: the availability test,
\* "if not os.path.exists(executable_path): ... return False", the dispatch.
\* out is the kind of value returned, types the backend tag asked for,
\* pids the pid of the process handle in the returned record
DoLaunchInSandbox(type, name, exe, exists, env) ==
    \E r \in {IF type \in available /\ ~exists
               THEN [w |-> World, ret |-> ResFalse]
               ELSE MgrLaunch(World, type, name, exe, env)} :
        /\ InBounds([Service EXCEPT !.w = r.w])
        /\ Commit([Service EXCEPT !.w = r.w])
        /\ last' = [Call("launch_in_sandbox", name, Truthy(r.ret))
                       EXCEPT !.out = r.ret.kind, !.types = {type},
                              !.pids = IF r.ret.handle = NoHandle THEN {}
                                       ELSE {r.ret.handle.pid}]
        /\ UNCHANGED <<fixed, mon, now, minted, conc>>

DoGetAvailableSandboxes ==
    /\ last' = [Call("get_available_sandboxes", <<>>, TRUE) EXCEPT !.types = available]
    /\ UNCHANGED <<fixed, mon, svc, world, now, minted, conc>>

DoIsSandboxAvailable(type) ==
    /\ last' = [Call("is_sandbox_available", <<>>, type \in available)
                   EXCEPT !.types = {type}]
    /\ UNCHANGED <<fixed, mon, svc, world, now, minted, conc>>

DoCheckSandboxHealth(name) ==
    /\ last' = [Call("check_sandbox_health", name, TRUE) EXCEPT !.out = MgrHealth(World, name)]
    /\ UNCHANGED <<fixed, mon, svc, world, now, minted, conc>>

DoServiceTerminateSandbox(i) ==
    \E r \in {ServiceTerminateSandbox(Service, i)} :
        /\ Commit(r.S)
        /\ last' = [Call("service_terminate_sandbox", i, r.ret = "true") EXCEPT !.out = r.ret]
        /\ UNCHANGED <<fixed, mon, now, minted, conc>>

DoGetGameInfo(i) ==
    \E r \in {GetGameInfo(Service, i)} :
        /\ Commit(r.S)
        /\ last' = [Call("get_game_info", i, r.ret = "info") EXCEPT !.out = r.ret]
        /\ UNCHANGED <<fixed, mon, now, minted, conc>>

\* pids: the process that exited while the call was running
DoGetGameInfoExit(i, stage) ==
    /\ Has(running_games, i)
    /\ HandleRunning(procs, Get(running_games, i).proc)
    /\ \E r \in {GetGameInfoExit(Service, i, stage)} :
           /\ Commit(r.S)
           /\ last' = [Call("get_game_info", i, r.ret = "info")
                          EXCEPT !.out = r.ret,
                                 !.pids = {p \in Pids(procs) :
                                              IsAlive(procs, p) /\ ~IsAlive(r.S.w.procs, p)}]
    /\ UNCHANGED <<fixed, mon, now, minted, conc>>

DoGetRunningGames ==
    \E r \in {GetRunningGames(Service)} :
        /\ Commit(r.S)
        /\ last' = [Call("get_running_games", <<>>, TRUE) EXCEPT !.keys = r.ret]
        /\ UNCHANGED <<fixed, mon, now, minted, conc>>

\* shutdown in one step: the monitor sees the flag and the join succeeds
DoShutdown ==
    /\ \E S \in {Shutdown(Service)} : Commit(S)
    /\ stop_flag' = TRUE
    /\ monitor' = "none"
    /\ monitors' = 0
    /\ last' = [Call("shutdown", <<>>, TRUE) EXCEPT !.pids = TrackedPids(Service)]
    /\ UNCHANGED <<fixed, now, minted, conc>>

\* _monitor_games: "while not self.stop_monitoring.is_set():
\*                      self._update_running_games(); time.sleep(1.0)"
\* one pass of the loop
MonitorUpdate ==
    /\ monitor = "running"
    /\ IF stop_flag
       THEN monitor' = "none" /\ monitors' = 0 /\ UNCHANGED svc
       ELSE /\ monitor' = monitor
            /\ monitors' = monitors
            /\ \E S \in {UpdateRunningGames(Service)} :
                   running_games' = S.rg /\ timers' = S.timers
    /\ last' = NoCall
    /\ UNCHANGED <<fixed, stop_flag, world, now, minted, conc>>

\* remove_after_delay: "if instance_id in self.running_games: del ..."
RemoveAfterDelay(i) ==
    /\ i \in timers
    /\ timers' = timers \ {i}
    /\ running_games' = Del(running_games, i)
    /\ last' = NoCall
    /\ UNCHANGED <<fixed, mon, world, now, minted, conc>>

\* a process exits by itself or is killed from outside
ProcessExits(pid) ==
    /\ IsAlive(procs, pid)
    /\ procs' = ExitProc(procs, pid)
    /\ last' = NoCall
    /\ UNCHANGED <<fixed, mon, svc, sandboxes, bi_sandboxes, ws_sandboxes, dirs, uuids,
                   now, minted, conc>>

\* somebody starts the executable of a registered game outside the service:
\* psutil.process_iter (line 316) sees every process of the machine
ForeignStart(g) ==
    /\ Len(procs) < MaxProcs
    /\ procs' = SpawnProc(procs, games[g], "none", NoName)
    /\ last' = NoCall
    /\ UNCHANGED <<fixed, mon, svc, sandboxes, bi_sandboxes, ws_sandboxes, dirs, uuids,
                   now, minted, conc>>

ClockTick ==
    /\ now < MaxTime
    /\ now' = now + 1
    /\ last' = NoCall
    /\ UNCHANGED <<fixed, mon, svc, world, minted, conc>>

--------------------------------------------------------------------------
(* Spec: the life of an instance.  One game, the built-in backend (whose   *)
(* records the monitor rediscovers by executable name) and Windows Sandbox *)
(* (whose records the monitor checks by sandbox health); every spawn       *)
(* succeeds and every process obeys terminate().                           *)

LifeGames == {"g1"}
LifeBackends == {"built_in", "windows_sandbox"}
LifeEnvs == {e \in Envs : e.spawn_ok /\ e.resist = "none"}

Next ==
    \/ \E g \in LifeGames, env \in LifeEnvs : DoLaunchGame(g, env)
    \/ \E g \in LifeGames, type \in LifeBackends, env \in LifeEnvs :
          DoLaunchGameInSandbox(g, type, env)
    \/ \E i \in Keys(running_games) : DoTerminateGame(i)
    \/ \E i \in Keys(running_games) : DoServiceTerminateSandbox(i)
    \/ \E i \in Keys(running_games) : DoGetGameInfo(i)
    \/ DoGetRunningGames
    \/ MonitorUpdate
    \/ \E i \in timers : RemoveAfterDelay(i)
    \/ \E pid \in DOMAIN procs : ProcessExits(pid)

Spec == Init /\ [][Next]_vars

--------------------------------------------------------------------------
(* SpecIds: sandboxed launches of both games on every backend while the    *)
(* clock advances; records leave through terminate_game.                   *)

IdEnvs == {e \in Envs : e.resist = "none" /\ e.child}

NextIds ==
    \/ \E g \in GameIds, type \in Backends, env \in IdEnvs :
          DoLaunchGameInSandbox(g, type, env)
    \/ \E i \in Keys(running_games) : DoTerminateGame(i)
    \/ ClockTick

SpecIds == Init /\ [][NextIds]_vars

--------------------------------------------------------------------------
(* C1 *)

\* C1: every successful launch_game_in_sandbox stores its record under an
\* instance id that no earlier successful sandboxed launch was given (ids of
\* records already removed included), so it overwrites no entry of
\* running_games.
C1_FreshInstanceId ==
    [][(last'.op = "launch_game_in_sandbox" /\ last'.ret)
          => /\ last'.arg \notin minted
             /\ ~Has(running_games, last'.arg)
             /\ Len(running_games') = Len(running_games) + 1
             /\ Has(running_games', last'.arg)]_vars

\* two successful sandboxed launches of one game in one clock second, the
\* first of them already removed from running_games
C1_Witness ==
    \E a \in minted, b \in minted :
        /\ a # b /\ a[1] = b[1] /\ a[2] = b[2]
        /\ ~Has(running_games, a) /\ Has(running_games, b)
        /\ last.op = "launch_game_in_sandbox" /\ last.ret /\ last.arg = b

--------------------------------------------------------------------------
(* C10 *)

SameOrGone(rec) ==
    Has(running_games', rec.id) => Get(running_games', rec.id) = rec

C21_ListedAreRunning ==
    last.op = "get_running_games" =>
        \A k \in DOMAIN running_games :
            running_games[k].id \in last.keys => ~running_games[k].terminated

C30_GetGameInfoIsPure ==
    [][last'.op = "get_game_info" => UNCHANGED <<running_games, timers>>]_vars

\* a live sandboxed record
ActiveSandboxed(rec) ==
    rec.shape = "dict" /\ rec.in_sandbox /\ rec.sandbox # NoName /\ ~rec.terminated

\* C26: terminate_game on one sandboxed instance leaves every other active
\* sandboxed instance alone: its record stays as it was, its sandbox stays
\* registered in its backend and its process keeps running.
C26_InstancesIndependent ==
    [][\A k \in DOMAIN running_games :
          LET rec == running_games[k]
          IN  (/\ last'.op = "terminate_game" /\ last'.ret /\ last'.arg # rec.id
               /\ ActiveSandboxed(rec))
                  => /\ Has(running_games', rec.id)
                     /\ Get(running_games', rec.id) = rec
                     /\ rec.sandbox \in DOMAIN bi_sandboxes
                            => rec.sandbox \in DOMAIN bi_sandboxes'
                     /\ rec.sandbox \in DOMAIN ws_sandboxes
                            => rec.sandbox \in DOMAIN ws_sandboxes'
                     /\ HandleRunning(procs, rec.proc)
                            => HandleRunning(procs', rec.proc)]_vars

\* built-in sandboxes that exist before and after the step
KeptSandboxes == DOMAIN bi_sandboxes \cap DOMAIN bi_sandboxes'

\* C11: in the built-in backend a launch under a name that already has a
\* sandbox keeps its hwid, mac and computer_name; for as long as the sandbox
\* is registered (no terminate_sandbox removed it) no step changes them.
C11_CoreIdentityReused ==
    [][\A n \in KeptSandboxes : bi_sandboxes'[n].hwid = bi_sandboxes[n].hwid]_vars

\* two launches went to the same built-in sandbox, the second just returned
C11_Witness ==
    /\ last.op = "launch_game_in_sandbox"
    /\ last.ret
    /\ \E n \in DOMAIN bi_sandboxes : Len(bi_sandboxes[n].processes) >= 2

\* C12: the extended identity fields of a built-in sandbox (ip, disk_serial,
\* bios_uuid, motherboard_serial, cpu_id, user_name), once generated, are
\* unchanged by every later step while the sandbox stays registered.
C12_ExtendedIdentityStable ==
    [][\A n \in KeptSandboxes :
          bi_sandboxes[n].ext # 0 => bi_sandboxes'[n].ext = bi_sandboxes[n].ext]_vars

--------------------------------------------------------------------------
(* SpecAvail: the manager on every kind of machine.  Construction on each  *)
(* outcome of the availability probes, then the manager's own calls with   *)
(* registered and unregistered backend tags.                               *)

AskedTypes == Backends \cup {"docker"}
MgrNames == {SandboxName("g1", 1)}
AvailEnvs == {e \in Envs : e.spawn_ok /\ e.resist = "none"}

InitAvail == probe \in Probes /\ Constructed

NextAvail ==
    \/ \E t \in AskedTypes, n \in MgrNames, x \in BOOLEAN, e \in AvailEnvs :
           DoLaunchInSandbox(t, n, GamePath["g1"], x, e)
    \/ DoGetAvailableSandboxes
    \/ \E t \in AskedTypes : DoIsSandboxAvailable(t)
    \/ \E n \in MgrNames : DoCheckSandboxHealth(n)
    \/ \E n \in MgrNames : DoTerminateSandbox(n)
    \/ \E pid \in Pids(procs) : ProcessExits(pid)

SpecAvail == InitAvail /\ [][NextAvail]_vars

\* C13: get_available_sandboxes() contains windows_sandbox exactly when
\* WindowsSandbox.exe exists and the optional feature is enabled.
C13_WindowsSandboxIffBinaryAndFeature ==
    last.op = "get_available_sandboxes" =>
        (("windows_sandbox" \in last.types) <=> (probe.ws_binary /\ probe.ws_feature))

\* C14: whatever the probes of the other backends find, the available
\* backends contain built_in: get_available_sandboxes() lists it and
\* is_sandbox_available("built_in") is True.
C14_BuiltInAlwaysAvailable ==
    /\ "built_in" \in available
    /\ last.op = "get_available_sandboxes" => "built_in" \in last.types
    /\ (last.op = "is_sandbox_available" /\ last.types = {"built_in"}) => last.ret

\* every other probe failed and is_sandbox_available("built_in") was asked
C14_Witness ==
    /\ ~probe.sandboxie /\ ~probe.virtualbox /\ ~probe.ws_binary /\ ~probe.ws_feature
    /\ last.op = "is_sandbox_available"
    /\ last.types = {"built_in"}

\* C15: launch_in_sandbox with a backend tag that is unknown or not available
\* returns a structured failure value (a dict), not a bare False.
C15_StructuredFailure ==
    (last.op = "launch_in_sandbox" /\ last.types \cap available = {})
        => (last.out = "dict" /\ ~last.ret)

\* C20: for a sandbox registered in the built-in backend,
\* check_sandbox_health(name) reports "running" when a tracked process is
\* alive and "stopped" otherwise, whichever kind of handle the launch stored.
C20_BuiltInHealthStatus ==
    (last.op = "check_sandbox_health" /\ last.arg \in DOMAIN bi_sandboxes) =>
        LET hs == bi_sandboxes[last.arg].processes
        IN  last.out = IF \E k \in DOMAIN hs : IsAlive(procs, hs[k].pid)
                       THEN "running" ELSE "stopped"

--------------------------------------------------------------------------
(* SpecReg: the registration map.  Games are registered, re-registered     *)
(* under another path and unregistered while launches ask for registered   *)
(* and unregistered game ids.                                              *)

RegGames == {"g1", "g3"}
RegPaths == {"a.exe", "c.exe"}
RegBackends == {"built_in"}
RegEnvs == {e \in Envs : e.spawn_ok /\ ~e.child /\ e.resist = "none"}

NextReg ==
    \/ \E g \in RegGames, path \in RegPaths, x \in BOOLEAN : DoRegisterGame(g, path, x)
    \/ \E g \in RegGames : DoUnregisterGame(g)
    \/ DoGetRegisteredGames
    \/ \E g \in RegGames, e \in RegEnvs : DoLaunchGame(g, e)
    \/ \E g \in RegGames, t \in RegBackends, e \in RegEnvs : DoLaunchGameInSandbox(g, t, e)
    \/ \E i \in Keys(running_games) : DoTerminateGame(i)

SpecReg == Init /\ [][NextReg]_vars

\* the game id a launch call was made with
LaunchOf(c) == c.arg[1]

\* C16: launch_game and launch_game_in_sandbox with a game_id that is not
\* registered return False, spawn no process and leave running_games, the
\* manager's registry and every backend registry as they were.
C16_UnregisteredLaunchIsNoOp ==
    [][(/\ last'.op \in {"launch_game", "launch_game_in_sandbox"}
        /\ LaunchOf(last') \notin DOMAIN games)
          => (/\ ~last'.ret
              /\ UNCHANGED <<running_games, procs, sandboxes, bi_sandboxes,
                             ws_sandboxes, dirs>>)]_vars

\* a launch was refused for an unregistered game while another game runs
C16_Witness ==
    /\ last.op \in {"launch_game", "launch_game_in_sandbox"}
    /\ LaunchOf(last) \notin DOMAIN games
    /\ running_games # <<>>

\* C18: register_game with an existing path stores that path under the
\* game_id, replacing any earlier one and touching no other entry (so the
\* same registration twice changes nothing), and get_registered_games()
\* holds one entry per game_id; with a path that does not exist it returns
\* False and leaves the map unchanged.
C18_RegisterLastWriteWins ==
    [][/\ last'.op = "register_game" =>
            LET g == last'.arg[1]
                path == last'.arg[2]
            IN  IF last'.out = "exists"
                THEN /\ last'.ret
                     /\ DOMAIN games' = DOMAIN games \cup {g}
                     /\ games'[g] = path
                     /\ \A h \in DOMAIN games \ {g} : games'[h] = games[h]
                     /\ (g \in DOMAIN games /\ games[g] = path) => games' = games
                ELSE ~last'.ret /\ games' = games
       /\ last'.op = "get_registered_games" =>
            /\ last'.keys = {<<g, games[g]>> : g \in DOMAIN games}
            /\ \A g \in DOMAIN games :
                   Cardinality({e \in last'.keys : e[1] = g}) = 1]_vars

\* g1, registered at construction as a.exe, was re-registered as c.exe
C18_Witness ==
    /\ last.op = "register_game"
    /\ last.ret
    /\ last.arg = <<"g1", "c.exe">>
    /\ games["g1"] = "c.exe"

\* C31: a built-in launch that spawned its launcher script and found no game
\* process (no live process of the executable's name created in the last 10
\* seconds) still succeeds: the returned record carries the launcher's pid
\* and the sandbox is registered with the launcher's handle tracked.
C31_LauncherHandleFallback ==
    [][(/\ last'.op = "launch_in_sandbox"
        /\ last'.types = {"built_in"}
        /\ Len(procs') > Len(procs)
        /\ RecentNamed(procs', GamePath["g1"]) = {})
          => LET launcher == Len(procs) + 1
             IN  /\ last'.ret
                 /\ last'.out = "dict"
                 /\ last'.pids = {launcher}
                 /\ procs'[launcher].name = "launch_game.bat"
                 /\ last'.arg \in DOMAIN bi_sandboxes'
                 /\ \E k \in DOMAIN bi_sandboxes'[last'.arg].processes :
                        bi_sandboxes'[last'.arg].processes[k] = Popen(launcher)]_vars

\* a built-in launch has just returned the handle of its launcher script
C31_Witness ==
    /\ last.op = "launch_in_sandbox"
    /\ last.types = {"built_in"}
    /\ last.ret
    /\ \E p \in last.pids : IsAlive(procs, p) /\ procs[p].name = "launch_game.bat"
    /\ RecentNamed(procs, GamePath["g1"]) = {}

\* C32: after a successful Sandboxie launch through the manager, the
\* manager's record for the sandbox holds the handle of the spawned process.
C32_SandboxieRecordKeepsHandle ==
    (last.op = "launch_in_sandbox" /\ last.types = {"sandboxie"} /\ last.pids # {}) =>
        /\ last.arg \in DOMAIN sandboxes
        /\ sandboxes[last.arg].process # NoHandle
        /\ sandboxes[last.arg].process.pid \in last.pids

\* C34: two distinct records of running_games that are not marked terminated
\* and hold a process never hold the same pid.
C34_DistinctRecordsDistinctPids ==
    \A j, k \in DOMAIN running_games :
        (/\ j # k
         /\ ~running_games[j].terminated /\ ~running_games[k].terminated
         /\ running_games[j].proc # NoHandle /\ running_games[k].proc # NoHandle)
        => running_games[j].proc.pid # running_games[k].proc.pid

\* C37: a launch through the manager whose backend signalled failure (False,
\* or a dict without a process, which carries success False) leaves the
\* manager's registry as it was.
C37_FailedLaunchKeepsRegistry ==
    [][(/\ last'.op = "launch_in_sandbox"
        /\ (~last'.ret \/ (last'.out = "dict" /\ last'.pids = {})))
          => sandboxes' = sandboxes]_vars

\* C38: every live host process spawned by the Windows Sandbox backend is
\* the process of some entry of the backend's registry.
C38_WsProcessesReachable ==
    \A p \in DOMAIN procs :
        (procs[p].alive /\ procs[p].name = "WindowsSandbox.exe")
        => \E n \in DOMAIN ws_sandboxes : ws_sandboxes[n].process = Popen(p)

--------------------------------------------------------------------------
(* SpecTerm: explicit termination.  One game on every backend, spawns that *)
(* may fail, launchers that may exit at once, processes that ignore        *)
(* terminate() or refuse both terminate() and kill(); no monitor pass.     *)

TermGames == {"g1"}

NextTerm ==
    \/ \E g \in TermGames, env \in Envs : DoLaunchGame(g, env)
    \/ \E g \in TermGames, type \in Backends, env \in Envs :
          DoLaunchGameInSandbox(g, type, env)
    \/ \E i \in Keys(running_games) : DoTerminateGame(i)
    \/ \E name \in DOMAIN sandboxes : DoTerminateSandbox(name)
    \/ DoShutdown
    \/ \E pid \in DOMAIN procs : ProcessExits(pid)

SpecTerm == Init /\ [][NextTerm]_vars

--------------------------------------------------------------------------
(* C3 *)

TempDirs(name) == {d \in dirs : d[2] = name}

\* a successful launch_game_in_sandbox launched a sandbox under this name
Launched(name) == \E i \in minted : SandboxName(i[1], i[2]) = name

\* C3: right after SandboxManager.terminate_sandbox(name) on a launched
\* sandbox of any backend, check_sandbox_health(name) reports not_found or
\* stopped and no temp directory of the sandbox exists.
C3_TerminatedSandboxIsGone ==
    (last.op = "terminate_sandbox" /\ Launched(last.arg))
        => /\ MgrHealth(World, last.arg) \in {"not_found", "stopped"}
           /\ TempDirs(last.arg) = {}

--------------------------------------------------------------------------
(* C5 *)

\* C5: when shutdown() has returned, running_games is empty, the registry of
\* the manager and of every backend is empty, and no process that a record
\* tracked when shutdown was called is alive.
C5_ShutdownLeavesNothing ==
    last.op = "shutdown"
        => /\ running_games = <<>>
           /\ sandboxes = EmptyMap /\ bi_sandboxes = EmptyMap /\ ws_sandboxes = EmptyMap
           /\ \A pid \in last.pids : ~IsAlive(procs, pid)

--------------------------------------------------------------------------
(* C7 *)

\* C7: terminate_game on the record of a running game started by launch_game
\* ends its process, removes the record and returns True.
C7_PlainTerminate ==
    [][\A k \in DOMAIN running_games :
          LET rec == running_games[k]
          IN  (/\ last'.op = "terminate_game" /\ last'.arg = rec.id
               /\ rec.shape = "popen" /\ IsAlive(procs, rec.proc.pid))
                  => /\ last'.ret
                     /\ ~Has(running_games', rec.id)
                     /\ ~IsAlive(procs', rec.proc.pid)]_vars

--------------------------------------------------------------------------
(* C9 *)

\* C9: when the tracked process of a record is still alive after
\* terminate_game (it survived terminate() and kill()), the call returns
\* False and the record is left in running_games exactly as it was.
C9_SurvivorKeepsRecord ==
    [][\A k \in DOMAIN running_games :
          LET rec == running_games[k]
          IN  (/\ last'.op = "terminate_game" /\ last'.arg = rec.id
               /\ rec.proc # NoHandle
               /\ IsAlive(procs, rec.proc.pid) /\ IsAlive(procs', rec.proc.pid))
                  => /\ ~last'.ret
                     /\ Has(running_games', rec.id)
                     /\ Get(running_games', rec.id) = rec]_vars

\* the manager's terminate_sandbox(name) has just run on a sandbox it had
\* recorded for this backend
TerminatedIn(type) ==
    /\ last'.op = "terminate_sandbox"
    /\ last'.arg \in DOMAIN sandboxes
    /\ sandboxes[last'.arg].type = type

\* C22: when terminate_sandbox(name) returns True for a built-in sandbox, no
\* process that was tracked under name is still running.
C22_BuiltInTerminateKillsAll ==
    [][(TerminatedIn("built_in") /\ last'.arg \in DOMAIN bi_sandboxes /\ last'.ret)
          => \A k \in DOMAIN bi_sandboxes[last'.arg].processes :
                 ~IsAlive(procs', bi_sandboxes[last'.arg].processes[k].pid)]_vars

\* C23: terminate_sandbox on a registered Windows Sandbox always ends with
\* the host process dead, the temp directory deleted and the entry dropped,
\* also when the host does not exit within the graceful wait.
C23_WindowsTerminateCompletes ==
    [][(TerminatedIn("windows_sandbox") /\ last'.arg \in DOMAIN ws_sandboxes)
          => LET name == last'.arg
                 h == ws_sandboxes[name].process
             IN  /\ name \notin DOMAIN ws_sandboxes'
                 /\ WsDir(name) \notin dirs'
                 /\ h # NoHandle => ~IsAlive(procs', h.pid)]_vars

\* C24: every name in the manager's registry is registered in the backend
\* recorded for it (the built-in and Windows Sandbox backends keep their own
\* registries), so a terminated name is no longer a key of the manager.
C24_RegistryMirrorsBackends ==
    \A n \in DOMAIN sandboxes :
        /\ sandboxes[n].type = "built_in" => n \in DOMAIN bi_sandboxes
        /\ sandboxes[n].type = "windows_sandbox" => n \in DOMAIN ws_sandboxes

\* C27: after terminate_game(instance_id) returned True for a sandboxed
\* instance, the instance is not in running_games, its sandbox name is not
\* in the backend's registry and the sandbox's temp directory is deleted.
C27_TerminateGameCleansSandbox ==
    [][\A k \in DOMAIN running_games :
          LET rec == running_games[k]
          IN  (/\ last'.op = "terminate_game" /\ last'.ret /\ last'.arg = rec.id
               /\ rec.shape = "dict" /\ rec.in_sandbox /\ rec.sandbox # NoName)
                  => /\ ~Has(running_games', rec.id)
                     /\ rec.sandbox \notin DOMAIN bi_sandboxes'
                     /\ rec.sandbox \notin DOMAIN ws_sandboxes'
                     /\ TempDirs(rec.sandbox) \cap dirs' = {}]_vars

--------------------------------------------------------------------------
(* SpecSpawn: launches on every backend with spawns that raise or succeed. *)

SpawnEnvs == {e \in Envs : e.resist = "none"}

NextSpawn ==
    \/ \E g \in TermGames, e \in SpawnEnvs : DoLaunchGame(g, e)
    \/ \E g \in TermGames, t \in Backends, e \in SpawnEnvs : DoLaunchGameInSandbox(g, t, e)
    \/ \E i \in Keys(running_games) : DoTerminateGame(i)

SpecSpawn == Init /\ [][NextSpawn]_vars

\* C17: a launch during which the process spawn raises (plain launch_game,
\* or a sandboxed launch on a backend that spawns: built-in, Windows
\* Sandbox, Sandboxie) returns False and adds no record to running_games.
C17_SpawnFailureIsContained ==
    [][(/\ last'.op \in {"launch_game", "launch_game_in_sandbox"}
        /\ last'.out = "spawn_raises"
        /\ "virtualbox" \notin last'.types)
          => (~last'.ret /\ running_games' = running_games)]_vars

\* a Sandboxie launch whose spawn raised has just returned
C17_Witness ==
    /\ last.op = "launch_game_in_sandbox"
    /\ last.out = "spawn_raises"
    /\ last.types = {"sandboxie"}
    /\ ~last.ret

\* C36: a built-in launch whose spawn raises leaves nothing behind: no new
\* name in the built-in backend's registry and no new temp directory.
C36_FailedBuiltInLaunchLeavesNothing ==
    [][(/\ last'.op = "launch_game_in_sandbox"
        /\ last'.types = {"built_in"}
        /\ last'.out = "spawn_raises")
          => (/\ DOMAIN bi_sandboxes' \subseteq DOMAIN bi_sandboxes
              /\ dirs' \subseteq dirs)]_vars

--------------------------------------------------------------------------
(* FairSpec: the life of an instance with the monitor loop and every       *)
(* delayed-removal thread scheduled fairly.                                *)

\* the ids a sandboxed launch of this specification can mint (its clock
\* stands still)
LifeIds == {InstanceId(g, 1, u) : g \in LifeGames, u \in 1..MaxUuid}

RemoveSome == \E i \in timers : RemoveAfterDelay(i)

Fairness == WF_vars(MonitorUpdate) /\ WF_vars(RemoveSome)

\* launches, terminate_game, the monitor, the timers and process exits
NextFair ==
    \/ \E g \in LifeGames, env \in LifeEnvs : DoLaunchGame(g, env)
    \/ \E g \in LifeGames, type \in LifeBackends, env \in LifeEnvs :
          DoLaunchGameInSandbox(g, type, env)
    \/ \E i \in Keys(running_games) : DoTerminateGame(i)
    \/ MonitorUpdate
    \/ \E i \in timers : RemoveAfterDelay(i)
    \/ \E pid \in DOMAIN procs : ProcessExits(pid)

FairSpec == Init /\ [][NextFair]_vars /\ Fairness

\* sandboxed launches only, on a machine where the game may also be started
\* outside the service
NextSandboxed ==
    \/ \E g \in LifeGames, type \in LifeBackends, env \in LifeEnvs :
          DoLaunchGameInSandbox(g, type, env)
    \/ \E i \in Keys(running_games) : DoTerminateGame(i)
    \/ MonitorUpdate
    \/ \E i \in timers : RemoveAfterDelay(i)
    \/ \E pid \in DOMAIN procs : ProcessExits(pid)
    \/ \E g \in LifeGames : ForeignStart(g)

FairSandboxSpec == Init /\ [][NextSandboxed]_vars /\ Fairness

--------------------------------------------------------------------------
(* C2 *)

\* the process a sandboxed record tracks is dead
TrackedDead(i) ==
    /\ Has(running_games, i)
    /\ Get(running_games, i).shape = "dict"
    /\ Get(running_games, i).in_sandbox
    /\ Get(running_games, i).proc # NoHandle
    /\ ~IsAlive(procs, Get(running_games, i).proc.pid)

\* C2: whenever the process tracked by a sandboxed record has died, the
\* record eventually leaves running_games (fair monitor, fair timers),
\* whatever other processes and records exist.
C2_DeadInstanceDisappears ==
    \A i \in LifeIds : TrackedDead(i) ~> ~Has(running_games, i)

--------------------------------------------------------------------------
(* C8 *)

\* the process of a plain-launched game has exited
PlainExited(g) ==
    /\ Has(running_games, PlainId(g))
    /\ Get(running_games, PlainId(g)).shape = "popen"
    /\ ~IsAlive(procs, Get(running_games, PlainId(g)).proc.pid)

\* C8: when the process of a game started by launch_game has exited, its
\* record eventually leaves running_games, so that launch_game(game_id) is
\* accepted again.
C8_ExitedPlainGameIsRemoved ==
    \A g \in LifeGames : PlainExited(g) ~> LaunchGuard(running_games, g)

--------------------------------------------------------------------------
(* FairBuiltInSpec: built-in instances and GameLauncherService's           *)
(* terminate_sandbox, with the monitor loop and the removal threads        *)
(* scheduled fairly.                                                       *)

NextBuiltIn ==
    \/ \E g \in LifeGames, env \in LifeEnvs : DoLaunchGameInSandbox(g, "built_in", env)
    \/ \E i \in Keys(running_games) : DoServiceTerminateSandbox(i)
    \/ MonitorUpdate
    \/ \E i \in timers : RemoveAfterDelay(i)
    \/ \E pid \in DOMAIN procs : ProcessExits(pid)

FairBuiltInSpec == Init /\ [][NextBuiltIn]_vars /\ Fairness

\* terminate_sandbox(i) has just returned True and the record of i is there
SandboxTerminated(i) ==
    /\ last.op = "service_terminate_sandbox"
    /\ last.arg = i
    /\ last.ret
    /\ Has(running_games, i)

\* C19: after GameLauncherService.terminate_sandbox succeeded for a built-in
\* instance, the instance eventually leaves running_games (fair monitor,
\* fair timers), whichever handle the launch recorded.
C19_TerminatedSandboxIsRemoved ==
    \A i \in LifeIds : SandboxTerminated(i) ~> ~Has(running_games, i)

--------------------------------------------------------------------------
(* SpecRace: launch_game called from several threads, one statement group  *)
(* at a time: the guard (lines 91-97), the Popen (105-112), the store and  *)
(* the return (114-121).                                                   *)

LgCheck(t, g) ==
    /\ threads[t].pc = "idle"
    /\ threads' = [threads EXCEPT ![t] =
                      IF LaunchGuard(running_games, g)
                      THEN [pc |-> "spawn", g |-> g, pid |-> 0, ret |-> FALSE]
                      ELSE [pc |-> "done", g |-> g, pid |-> 0, ret |-> FALSE]]
    /\ last' = NoCall
    /\ UNCHANGED <<fixed, mon, svc, world, now, minted, shut, iter, tm>>

LgSpawn(t, env) ==
    /\ threads[t].pc = "spawn"
    /\ IF env.spawn_ok
       THEN /\ Len(procs) < MaxProcs
            /\ procs' = SpawnProc(procs, games[threads[t].g], env.resist, NoName)
            /\ threads' = [threads EXCEPT ![t].pc = "store", ![t].pid = Len(procs')]
       ELSE /\ procs' = procs
            /\ threads' = [threads EXCEPT ![t].pc = "done"]
    /\ last' = NoCall
    /\ UNCHANGED <<fixed, mon, svc, sandboxes, bi_sandboxes, ws_sandboxes, dirs, uuids,
                   now, minted, shut, iter, tm>>

LgStore(t) ==
    /\ threads[t].pc = "store"
    /\ running_games' = Store(running_games, RawRecord(threads[t].g, threads[t].pid))
    /\ StartMonitorIfNeeded
    /\ threads' = [threads EXCEPT ![t].pc = "done", ![t].ret = TRUE]
    /\ last' = NoCall
    /\ UNCHANGED <<fixed, timers, world, now, minted, shut, iter, tm>>

LgReturn(t) ==
    /\ threads[t].pc = "done"
    /\ threads' = [threads EXCEPT ![t] = IdleThread]
    /\ last' = Call("launch_game", PlainId(threads[t].g), threads[t].ret)
    /\ UNCHANGED <<fixed, mon, svc, world, now, minted, shut, iter, tm>>

RaceEnvs == {e \in Envs : e.child /\ e.resist = "none"}

NextRace ==
    \/ \E t \in ThreadIds, g \in GameIds : LgCheck(t, g)
    \/ \E t \in ThreadIds, env \in RaceEnvs : LgSpawn(t, env)
    \/ \E t \in ThreadIds : LgStore(t)
    \/ \E t \in ThreadIds : LgReturn(t)
    \/ \E pid \in DOMAIN procs : ProcessExits(pid)

SpecRace == Init /\ [][NextRace]_vars

--------------------------------------------------------------------------
(* C4 *)

\* C4: under every interleaving of launch_game calls, at most one live
\* process spawned by launch_game exists for a game_id.
C4_OneProcessPerGame ==
    \A g \in GameIds : Cardinality(ProcsNamed(procs, games[g])) <= 1

--------------------------------------------------------------------------
(* SpecShut: shutdown statement by statement, next to the monitor thread   *)
(* and the delayed-removal threads.  The steps of the shutdown thread: the *)
(* flag, the join and terminate_all_sandboxes with the snapshot of the     *)
(* keys (lines 582-590); then per key the membership test of               *)
(* terminate_game (line 136), and its read of the record (line 140) with   *)
(* the rest of terminate_game.                                             *)

ShutBegin ==
    /\ shut.pc = "idle"
    /\ stop_flag' = TRUE
    /\ monitor' = monitor
    /\ monitors' = monitors
    /\ \E w \in {MgrTerminateAll(World, DOMAIN sandboxes)} :
          Commit([Service EXCEPT !.w = w])
    /\ shut' = [pc |-> "check", todo |-> KeyList(running_games)]
    /\ last' = NoCall
    /\ UNCHANGED <<fixed, now, minted, threads, iter, tm>>

\* "if instance_id not in self.running_games: return False"
ShutCheck ==
    /\ shut.pc = "check"
    /\ IF shut.todo = <<>>
       THEN /\ shut' = [pc |-> "returned", todo |-> <<>>]
            /\ last' = Call("shutdown", <<>>, TRUE)
       ELSE /\ shut' = IF Has(running_games, Head(shut.todo))
                       THEN [shut EXCEPT !.pc = "fetch"]
                       ELSE [shut EXCEPT !.todo = Tail(shut.todo)]
            /\ last' = NoCall
    /\ UNCHANGED <<fixed, mon, svc, world, now, minted, threads, iter, tm>>

\* "game_info = self.running_games[instance_id]" stands outside the try
\* block: a KeyError leaves terminate_game and shutdown
ShutFetch ==
    /\ shut.pc = "fetch"
    /\ IF ~Has(running_games, Head(shut.todo))
       THEN /\ shut' = [shut EXCEPT !.pc = "raised"]
            /\ last' = [Call("shutdown", <<>>, FALSE) EXCEPT !.out = "raised"]
            /\ UNCHANGED <<svc, world>>
       ELSE /\ \E r \in {TerminateGame(Service, Head(shut.todo))} : Commit(r.S)
            /\ shut' = [pc |-> "check", todo |-> Tail(shut.todo)]
            /\ last' = NoCall
    /\ UNCHANGED <<fixed, mon, now, minted, threads, iter, tm>>

ShutEnvs == {e \in Envs : e.spawn_ok}

NextShut ==
    \/ \E g \in LifeGames, env \in ShutEnvs : shut.pc = "idle" /\ DoLaunchGame(g, env)
    \/ \E g \in LifeGames, type \in LifeBackends, env \in ShutEnvs :
          shut.pc = "idle" /\ DoLaunchGameInSandbox(g, type, env)
    \/ MonitorUpdate
    \/ \E i \in timers : RemoveAfterDelay(i)
    \/ \E pid \in DOMAIN procs : ProcessExits(pid)
    \/ ShutBegin
    \/ ShutCheck
    \/ ShutFetch

SpecShut == Init /\ [][NextShut]_vars

--------------------------------------------------------------------------
(* C6 *)

\* C6: no exception leaves shutdown(), whatever the monitor thread and the
\* delayed-removal threads do to running_games meanwhile.
C6_ShutdownNeverRaises == shut.pc # "raised"

--------------------------------------------------------------------------
(* SpecInfo: get_game_info on sandboxed instances whose process may exit   *)
(* before, after or during the call.                                       *)

NextInfo ==
    \/ \E g \in LifeGames, type \in LifeBackends, env \in LifeEnvs :
          DoLaunchGameInSandbox(g, type, env)
    \/ \E i \in Keys(running_games) : DoTerminateGame(i)
    \/ \E i \in Keys(running_games) : DoGetGameInfo(i)
    \/ \E i \in Keys(running_games), st \in ExitStages : DoGetGameInfoExit(i, st)
    \/ \E i \in timers : RemoveAfterDelay(i)
    \/ \E pid \in DOMAIN procs : ProcessExits(pid)

SpecInfo == Init /\ [][NextInfo]_vars

\* C29: when the process of an instance exits while get_game_info is reading
\* it, the call returns no record and the instance is marked terminated.
C29_ExitDuringQueryIsGone ==
    (last.op = "get_game_info" /\ last.pids # {}) =>
        /\ last.out = "none"
        /\ Has(running_games, last.arg) => Get(running_games, last.arg).terminated

--------------------------------------------------------------------------
(* SpecIter: is_game_running from a caller thread, the loop over           *)
(* self.running_games.items() one item at a time, while the monitor, the   *)
(* removal threads and other callers run.  Nothing in the service holds a  *)
(* lock.                                                                   *)

\* "self._update_running_games()", then the iterator is created
IgrBegin(g) ==
    /\ iter.pc = "idle"
    /\ \E S \in {UpdateRunningGames(Service)} :
           /\ running_games' = S.rg
           /\ timers' = S.timers
           /\ iter' = [pc |-> "iterating", g |-> g, pos |-> 1, size |-> Len(S.rg)]
    /\ last' = NoCall
    /\ UNCHANGED <<fixed, mon, world, now, minted, threads, shut, tm>>

\* one turn of "for instance_id, game_info in self.running_games.items()":
\* the dict iterator raises RuntimeError when the size of the dict has
\* changed since it was created
IgrStep ==
    /\ iter.pc = "iterating"
    /\ IF Len(running_games) # iter.size
       THEN /\ iter' = IdleIter
            /\ last' = [Call("is_game_running", <<iter.g>>, FALSE) EXCEPT !.out = "raised"]
       ELSE IF iter.pos > Len(running_games)
       THEN /\ iter' = IdleIter
            /\ last' = Call("is_game_running", <<iter.g>>, FALSE)
       ELSE LET rec == running_games[iter.pos]
            IN  IF \/ rec.shape = "dict" /\ rec.game_id = iter.g
                   \/ rec.id = PlainId(iter.g)
                THEN /\ iter' = IdleIter
                     /\ last' = Call("is_game_running", <<iter.g>>, TRUE)
                ELSE /\ iter' = [iter EXCEPT !.pos = iter.pos + 1]
                     /\ last' = NoCall
    /\ UNCHANGED <<fixed, mon, svc, world, now, minted, threads, shut, tm>>

IterAsked == {"g1", "g2"}

NextIter ==
    \/ \E g \in LifeGames, env \in LifeEnvs : DoLaunchGameInSandbox(g, "built_in", env)
    \/ \E i \in Keys(running_games) : DoTerminateGame(i)
    \/ MonitorUpdate
    \/ \E i \in timers : RemoveAfterDelay(i)
    \/ \E pid \in DOMAIN procs : ProcessExits(pid)
    \/ \E g \in IterAsked : IgrBegin(g)
    \/ IgrStep

SpecIter == Init /\ [][NextIter]_vars

\* C25: while a thread is inside the loop of is_game_running, no step
\* inserts a key into running_games or removes one.
C25_NoMutationDuringIteration ==
    [][iter.pc = "iterating" => KeyList(running_games') = KeyList(running_games)]_vars

--------------------------------------------------------------------------
(* SpecBot: launch_game_with_bot, whose records are dicts stored under the *)
(* game id, so that the monitor marks them and schedules their removal,    *)
(* and a later launch of the same game stores a new record under the same  *)
(* key.                                                                    *)

\* the dict launch_game_with_bot puts in place of the Popen object:
\* {"process", "pid", "start_time", "with_bot"}
BotRecord(raw) ==
    [raw EXCEPT !.shape = "dict"]

\* launch_game_with_bot: launch_game, then the conversion of the record
LaunchGameWithBot(S, g, env) ==
    LET r == LaunchGame(S, g, env)
    IN  IF ~r.ret THEN [S |-> r.S, ret |-> FALSE]
        ELSE IF ~Has(r.S.rg, PlainId(g)) THEN [S |-> r.S, ret |-> TRUE]
        ELSE LET rec == Get(r.S.rg, PlainId(g))
             IN  [S |-> [r.S EXCEPT !.rg = Store(r.S.rg, IF rec.shape = "dict" THEN rec
                                                         ELSE BotRecord(rec))],
                  ret |-> TRUE]

DoLaunchGameWithBot(g, env) ==
    \E r \in {LaunchGameWithBot(Service, g, env)} :
        /\ InBounds(r.S)
        /\ Commit(r.S)
        /\ IF r.ret THEN StartMonitorIfNeeded ELSE UNCHANGED mon
        /\ last' = [Call("launch_game_with_bot", PlainId(g), r.ret) EXCEPT !.out = SpawnNote(env)]
        /\ UNCHANGED <<fixed, now, minted, conc>>

NextBot ==
    \/ \E g \in DOMAIN games, env \in LifeEnvs : DoLaunchGameWithBot(g, env)
    \/ \E i \in Keys(running_games) : DoTerminateGame(i)
    \/ MonitorUpdate
    \/ \E i \in timers : RemoveAfterDelay(i)
    \/ \E pid \in DOMAIN procs : ProcessExits(pid)

SpecBot == Init /\ [][NextBot]_vars

\* C33: a delayed removal removes only the record it was scheduled for,
\* which is marked terminated; it never deletes a record that is not
\* marked, such as the live record of a later launch under the same key.
C33_TimerRemovesOnlyItsRecord ==
    [][\A i \in timers :
          (/\ last' = NoCall
           /\ timers' = timers \ {i}
           /\ Has(running_games, i)
           /\ ~Has(running_games', i))
          => Get(running_games, i).terminated]_vars

--------------------------------------------------------------------------
(* SpecMon: the end of launch_game on several threads, one statement group *)
(* at a time: the store (line 114), the test "not self.monitor_thread or   *)
(* not self.monitor_thread.is_alive()" (line 118) and start_monitoring     *)
(* (lines 356-362).  No lock is held between the test and the start.       *)

LmStore(t) ==
    /\ threads[t].pc = "store"
    /\ running_games' = Store(running_games, RawRecord(threads[t].g, threads[t].pid))
    /\ threads' = [threads EXCEPT ![t].pc = "test", ![t].ret = TRUE]
    /\ last' = NoCall
    /\ UNCHANGED <<fixed, mon, timers, world, now, minted, shut, iter, tm>>

LmTest(t) ==
    /\ threads[t].pc = "test"
    /\ threads' = [threads EXCEPT ![t].pc = IF monitor = "none" THEN "start" ELSE "done"]
    /\ last' = NoCall
    /\ UNCHANGED <<fixed, mon, svc, world, now, minted, shut, iter, tm>>

\* start_monitoring: clear the flag, create the thread, start it
LmStart(t) ==
    /\ threads[t].pc = "start"
    /\ stop_flag' = FALSE
    /\ monitor' = "running"
    /\ monitors' = monitors + 1
    /\ threads' = [threads EXCEPT ![t].pc = "done"]
    /\ last' = NoCall
    /\ UNCHANGED <<fixed, svc, world, now, minted, shut, iter, tm>>

NextMon ==
    \/ \E t \in ThreadIds, g \in GameIds : LgCheck(t, g)
    \/ \E t \in ThreadIds, env \in RaceEnvs : LgSpawn(t, env)
    \/ \E t \in ThreadIds : LmStore(t)
    \/ \E t \in ThreadIds : LmTest(t)
    \/ \E t \in ThreadIds : LmStart(t)
    \/ \E t \in ThreadIds : LgReturn(t)
    \/ \E pid \in DOMAIN procs : ProcessExits(pid)

SpecMon == Init /\ [][NextMon]_vars

\* C35: at most one thread runs _monitor_games at any time.
C35_AtMostOneMonitor == monitors <= 1

--------------------------------------------------------------------------
(* SpecTm: the ThreadManager.  Tasks are submitted with a callback and an  *)
(* error_callback and their functions terminate; no task is submitted      *)
(* after shutdown was called.  The worker loop and the result processor    *)
(* run one statement group at a time.                                      *)

TmRest == <<fixed, mon, svc, world, now, minted, threads, shut, iter>>

\* submit_task: self.tasks[task_id] = task; task_queue.put(task)
SubmitTask(i) ==
    /\ ~tm.t[i].submitted
    /\ tm.sd = "idle"
    /\ tm' = [tm EXCEPT !.t[i].submitted = TRUE,
                        !.tasks = tm.tasks \cup {i},
                        !.tq = Append(tm.tq, i),
                        !.tq_unf = tm.tq_unf + 1]
    /\ last' = NoCall
    /\ UNCHANGED TmRest

\* cancel_task, under tasks_lock
CancelTask(i) ==
    /\ tm.t[i].submitted
    /\ tm.t[i].cancel_ret = "none"
    /\ tm' = IF i \in tm.tasks /\ ~tm.t[i].completed
             THEN [tm EXCEPT !.t[i].cancelled = TRUE,
                             !.t[i].cancel_ret = "true",
                             !.tasks = tm.tasks \ {i}]
             ELSE [tm EXCEPT !.t[i].cancel_ret = "false"]
    /\ last' = NoCall
    /\ UNCHANGED TmRest

\* "while not self.shutdown_event.is_set():"
WorkerTop(k) ==
    /\ tm.w[k].pc = "top"
    /\ tm' = [tm EXCEPT !.w[k].pc = IF tm.ev THEN "exited" ELSE "get"]
    /\ last' = NoCall
    /\ UNCHANGED TmRest

\* task_queue.get(timeout=0.5); queue.Empty -> continue
WorkerGet(k) ==
    /\ tm.w[k].pc = "get"
    /\ tm' = IF tm.tq = <<>>
             THEN [tm EXCEPT !.w[k].pc = "top"]
             ELSE [tm EXCEPT !.w[k] = [pc |-> "check", task |-> Head(tm.tq)],
                             !.tq = Tail(tm.tq)]
    /\ last' = NoCall
    /\ UNCHANGED TmRest

\* "if task.cancelled: self.task_queue.task_done(); continue"
WorkerCheck(k) ==
    /\ tm.w[k].pc = "check"
    /\ tm' = IF tm.t[tm.w[k].task].cancelled
             THEN [tm EXCEPT !.w[k] = [pc |-> "top", task |-> 0],
                             !.tq_unf = tm.tq_unf - 1]
             ELSE [tm EXCEPT !.w[k].pc = "exec"]
    /\ last' = NoCall
    /\ UNCHANGED TmRest

\* task.func(...) and task.completed = True
WorkerExec(k) ==
    /\ tm.w[k].pc = "exec"
    /\ tm' = [tm EXCEPT !.t[tm.w[k].task].ran = TRUE,
                        !.t[tm.w[k].task].completed = TRUE,
                        !.w[k].pc = "put"]
    /\ last' = NoCall
    /\ UNCHANGED TmRest

\* result_queue.put(task); task_queue.task_done()
WorkerPut(k) ==
    /\ tm.w[k].pc = "put"
    /\ tm' = [tm EXCEPT !.rq = Append(tm.rq, tm.w[k].task),
                        !.rq_unf = tm.rq_unf + 1,
                        !.tq_unf = tm.tq_unf - 1,
                        !.w[k] = [pc |-> "top", task |-> 0]]
    /\ last' = NoCall
    /\ UNCHANGED TmRest

\* the result processor: "while not self.shutdown_event.is_set():"
ResultTop ==
    /\ tm.rp.pc = "top"
    /\ tm' = [tm EXCEPT !.rp.pc = IF tm.ev THEN "exited" ELSE "get"]
    /\ last' = NoCall
    /\ UNCHANGED TmRest

\* result_queue.get(timeout=0.5); queue.Empty -> continue
ResultGet ==
    /\ tm.rp.pc = "get"
    /\ tm' = IF tm.rq = <<>>
             THEN [tm EXCEPT !.rp.pc = "top"]
             ELSE [tm EXCEPT !.rp = [pc |-> "handle", task |-> Head(tm.rq)],
                             !.rq = Tail(tm.rq)]
    /\ last' = NoCall
    /\ UNCHANGED TmRest

\* del self.tasks[task_id] if present; the callback or the error_callback;
\* result_queue.task_done()
ResultHandle ==
    /\ tm.rp.pc = "handle"
    /\ tm' = [tm EXCEPT !.tasks = tm.tasks \ {tm.rp.task},
                        !.t[tm.rp.task].called = TRUE,
                        !.rq_unf = tm.rq_unf - 1,
                        !.rp = [pc |-> "top", task |-> 0]]
    /\ last' = NoCall
    /\ UNCHANGED TmRest

\* shutdown(wait=True): shutdown_event.set()
TmShutdownBegin ==
    /\ tm.sd = "idle"
    /\ tm' = [tm EXCEPT !.ev = TRUE, !.sd = "join_tasks"]
    /\ last' = NoCall
    /\ UNCHANGED TmRest

\* task_queue.join() returns when unfinished_tasks is zero
TmJoinTasks ==
    /\ tm.sd = "join_tasks"
    /\ tm.tq_unf = 0
    /\ tm' = [tm EXCEPT !.sd = "join_results"]
    /\ last' = NoCall
    /\ UNCHANGED TmRest

\* result_queue.join() returns when unfinished_tasks is zero
TmJoinResults ==
    /\ tm.sd = "join_results"
    /\ tm.rq_unf = 0
    /\ tm' = [tm EXCEPT !.sd = "returned"]
    /\ last' = NoCall
    /\ UNCHANGED TmRest

WorkerStep == \E k \in WorkerIds :
    WorkerTop(k) \/ WorkerGet(k) \/ WorkerCheck(k) \/ WorkerExec(k) \/ WorkerPut(k)
ResultStep == ResultTop \/ ResultGet \/ ResultHandle
TmShutdownStep == TmJoinTasks \/ TmJoinResults

NextTm ==
    \/ \E i \in TaskIds : SubmitTask(i)
    \/ \E i \in TaskIds : CancelTask(i)
    \/ \E k \in WorkerIds : WorkerTop(k)
    \/ \E k \in WorkerIds : WorkerGet(k)
    \/ \E k \in WorkerIds : WorkerCheck(k)
    \/ \E k \in WorkerIds : WorkerExec(k)
    \/ \E k \in WorkerIds : WorkerPut(k)
    \/ ResultTop
    \/ ResultGet
    \/ ResultHandle
    \/ TmShutdownBegin
    \/ TmJoinTasks
    \/ TmJoinResults

SpecTm == Init /\ [][NextTm]_vars

\* every thread of the manager and the caller blocked in shutdown are
\* scheduled fairly
TmFairness == WF_vars(WorkerStep) /\ WF_vars(ResultStep) /\ WF_vars(TmShutdownStep)

FairTmSpec == Init /\ [][NextTm]_vars /\ TmFairness

\* C39: a task for which cancel_task returned True is never executed and
\* none of its callbacks is invoked.
C39_CancelledTaskNeverRuns ==
    \A i \in TaskIds :
        tm.t[i].cancel_ret = "true" => (~tm.t[i].ran /\ ~tm.t[i].called)

\* C40: shutdown(wait=True), once called, eventually returns.
C40_ShutdownWaitReturns ==
    (tm.sd = "join_tasks") ~> (tm.sd = "returned")

====
